---------------------------- MODULE Spec2Model ----------------------------
(***************************************************************************)
(* Seam carving kernel of edd255/simp: pixel distance, energy matrices,    *)
(* minimum endpoint search, seam trace, seam removal and the seam_carve    *)
(* loop (src/src/pixel_utils.rs, energy_utils.rs, image_utils.rs).         *)
(*                                                                         *)
(* A DMatrix is the record [nrows, ncols, data] with data a function on    *)
(* the pairs <<row, col>>, indexed from 0 as in the source.  A fallible    *)
(* call yields a record with a status: "ok", "overflow" (arithmetic        *)
(* overflow panic, only in a build with overflow checks) or "index" (index *)
(* out of bounds panic), together with the state left behind.              *)
(***************************************************************************)
EXTENDS Integers, FiniteSets, Sequences, TLC

VARIABLES
    overflow_checks,  \* build profile: TRUE = overflow checks on (debug), FALSE = wrapping (release)
    pixels,           \* Image.pixels
    pixels0,          \* history: the grid handed to the operation
    energy_matrix,    \* the DMatrix<u32> energy buffer
    energy_in,        \* history: the buffer as it was when the last energy call began
    vertical,         \* seam_carve's `vertical` argument / the orientation of a call
    iterations,       \* seam_carve's `iterations` argument
    width,            \* seam_carve's `width` (vertical) or `height` (horizontal)
    border,           \* the active bound
    x,                \* start index of the seam
    seam,             \* the traced seam, a function on 0 .. len-1
    done_iters,       \* loop iterations of seam_carve completed so far
    iter_pixels,      \* history: the grid at the start of the current iteration
    status,           \* outcome of the last call: "ok", "overflow", "index"
    pc,               \* position of the running operation
    pixel1,           \* color_diff arguments and result
    pixel2,
    diff,
    coords,           \* landfill's `coords`, the seed (y, x)
    rgb,              \* landfill's `rgb`, the fill colour
    original_point,   \* landfill's `original_point`, the colour found at the seed
    stack,            \* landfill's worklist, its top at the end
    total_i,          \* row index of the total-energy sweep over a tall image
    total_row         \* the energies the sweep has left in row total_i

\* the variables of landfill, and of the sweep over a tall image
fill_vars == <<coords, rgb, original_point, stack>>
sweep_vars == <<total_i, total_row>>

vars == <<overflow_checks, pixels, pixels0, energy_matrix, energy_in, vertical,
          iterations, width, border, x, seam, done_iters, iter_pixels, status,
          pc, pixel1, pixel2, diff, fill_vars, sweep_vars>>

-----------------------------------------------------------------------------
(* Bounds of the model *)

\* pixel grids have at most MaxCells pixels and at most MaxSide rows or columns
\* (every shape rows x cols within both)
MaxCells == 12
MaxSide == 4
\* seam_carve is asked for at most MaxIter seams
MaxIter == 2
\* pixel grids handed directly to a single function have at most SmallCells pixels
SmallCells == 8
\* energy grids handed directly to the seam finder have at most FinderCells cells
FinderCells == 6
\* on the small grids seam_carve is asked for at most DrainIter seams, one more
\* than the widest grid has columns
DrainIter == 5
\* landfill runs on grids of at most FillCells cells, and its worklist is
\* followed up to MaxStack entries
FillCells == 4
MaxStack == 6

-----------------------------------------------------------------------------
(* Pixels and the distance metric (pixel_utils.rs) *)

Pixel(r, g, b) == [red |-> r, green |-> g, blue |-> b]

\* largest value of an i32, the width color_diff computes in
I32_MAX == 2147483647

\* a u8 difference taken without widening: wraps modulo 256
channel_diff_u8(a, b) == (a - b) % 256

\* i32::from(a) - i32::from(b)
channel_diff(a, b) == a - b

red_diff(p1, p2) == channel_diff(p1.red, p2.red)
green_diff(p1, p2) == channel_diff(p1.green, p2.green)
blue_diff(p1, p2) == channel_diff(p1.blue, p2.blue)

\* Pixel::color_diff: the three squared differences, summed, cast to u32
color_diff(p1, p2) ==
    LET red_diff_squared == red_diff(p1, p2) * red_diff(p1, p2)
        green_diff_squared == green_diff(p1, p2) * green_diff(p1, p2)
        blue_diff_squared == blue_diff(p1, p2) * blue_diff(p1, p2)
    IN  red_diff_squared + green_diff_squared + blue_diff_squared

-----------------------------------------------------------------------------
(* Matrices *)

Cells(r, c) == (0 .. r - 1) \X (0 .. c - 1)

\* DMatrix::from_element(r, c, v)
from_element(r, c, v) == [nrows |-> r, ncols |-> c, data |-> [p \in Cells(r, c) |-> v]]

\* whether an index pair lies inside a matrix (the check behind m[(i, j)])
InBounds(m, p) == p[1] >= 0 /\ p[1] < m.nrows /\ p[2] >= 0 /\ p[2] < m.ncols

\* std::cmp::min
min(a, b) == IF a <= b THEN a ELSE b

\* stand-in for 2^64, the modulus of usize arithmetic without overflow checks;
\* any value above every index of the model compares the same way
USIZE_MODULUS == 1073741824

\* a - b in usize without overflow checks
wrapping_sub(a, b) == IF a >= b THEN a - b ELSE a - b + USIZE_MODULUS


-----------------------------------------------------------------------------
(* Energy matrices (energy_utils.rs).  Each loop of the source is one       *)
(* operator on the energy buffer; the callers below put them in order and   *)
(* stop at the first panic.                                                 *)

\* vertical, "Edge Case: First Row": for j in 1..border, cut short at the first
\* column outside the image (where image.pixels[(0, j)] panics)
vertical_first_row(image, energy, bound) ==
    [energy EXCEPT !.data = [p \in DOMAIN energy.data |->
        IF p[1] = 0 /\ p[2] >= 1 /\ p[2] < min(bound, image.ncols)
        THEN color_diff(image.data[p], image.data[<<0, p[2] - 1>>])
        ELSE energy.data[p]]]

\* vertical, "Edge Case: Left Border": for i in 1..nrows
vertical_left_border(image, energy) ==
    [energy EXCEPT !.data = [p \in DOMAIN energy.data |->
        IF p[1] >= 1 /\ p[1] < image.nrows /\ p[2] = 0
        THEN color_diff(image.data[p], image.data[<<p[1] - 1, 0>>])
        ELSE energy.data[p]]]

\* vertical, "No Edge Cases": for i in 1..nrows, for j in 1..border
vertical_interior(image, energy, bound) ==
    [energy EXCEPT !.data = [p \in DOMAIN energy.data |->
        IF p[1] >= 1 /\ p[1] < image.nrows /\ p[2] >= 1 /\ p[2] < bound
        THEN color_diff(image.data[p], image.data[<<p[1], p[2] - 1>>])
             + color_diff(image.data[p], image.data[<<p[1] - 1, p[2]>>])
        ELSE energy.data[p]]]

\* vertical, "Calculation of total energy", the body of the loop over i for
\* one i: every cell of row i reads row i - 1 only, so the order of j is immaterial
vertical_total_row(energy, bound, i) ==
    [energy EXCEPT !.data = [p \in DOMAIN energy.data |->
        IF p[1] = i /\ p[2] < bound
        THEN LET j == p[2]
                 left == <<i - 1, j - 1>>
                 above == <<i - 1, j>>
                 right == <<i - 1, j + 1>>
             IN  IF j = 0
                 THEN energy.data[p] + min(energy.data[above], energy.data[right])
                 ELSE IF j = bound - 1
                 THEN energy.data[p] + min(energy.data[above], energy.data[left])
                 ELSE energy.data[p]
                      + min(min(energy.data[above], energy.data[left]), energy.data[right])
        ELSE energy.data[p]]]

RECURSIVE vertical_total_rows(_, _, _, _)
\* vertical, "Calculation of total energy": for i in i..nrows
vertical_total_rows(energy, bound, i, nrows) ==
    IF i >= nrows THEN energy
    ELSE vertical_total_rows(vertical_total_row(energy, bound, i), bound, i + 1, nrows)

\* the panic, if any, of the first step (i = 1, j = 0) of the total-energy loop:
\* `j - 1` underflows under overflow checks; otherwise energy[(0, 1)] is read
total_energy_panic(lines, bound, other_dim, checks) ==
    IF lines < 2 \/ bound < 1 THEN "ok"
    ELSE IF checks THEN "overflow"
    ELSE IF other_dim < 2 THEN "index"
    ELSE "ok"

\* the same computation with the bound ignored: the whole width is swept
calculate_vertical_energy_matrix_full_width(image, energy, bound, checks) ==
    LET e1 == [energy EXCEPT !.data[<<0, 0>>] = 0]
        e2 == vertical_first_row(image, e1, image.ncols)
        e3 == vertical_left_border(image, e2)
        e4 == vertical_interior(image, e3, image.ncols)
        st == total_energy_panic(image.nrows, image.ncols, energy.ncols, checks)
    IN  IF st # "ok" THEN [status |-> st, energy |-> e4]
        ELSE [status |-> "ok",
              energy |-> vertical_total_rows(e4, image.ncols, 1, image.nrows)]

\* calculate_vertical_energy_matrix(image, energy, bound)
calculate_vertical_energy_matrix(image, energy, bound, checks) ==
    LET e1 == [energy EXCEPT !.data[<<0, 0>>] = 0]
        e2 == vertical_first_row(image, e1, bound)
        e3 == vertical_left_border(image, e2)
        e4 == vertical_interior(image, e3, bound)
        st == total_energy_panic(image.nrows, bound, energy.ncols, checks)
    IN  IF bound > image.ncols THEN [status |-> "index", energy |-> e2]
        ELSE IF st # "ok" THEN [status |-> st, energy |-> e4]
        ELSE [status |-> "ok", energy |-> vertical_total_rows(e4, bound, 1, image.nrows)]

\* horizontal, "Edge Case: First Column": for j in 1..border, cut short at the
\* first row outside the image
horizontal_first_column(image, energy, bound) ==
    [energy EXCEPT !.data = [p \in DOMAIN energy.data |->
        IF p[2] = 0 /\ p[1] >= 1 /\ p[1] < min(bound, image.nrows)
        THEN color_diff(image.data[p], image.data[<<p[1] - 1, 0>>])
        ELSE energy.data[p]]]

\* horizontal, "Edge Case: First Row": for i in 1..ncols
horizontal_first_row(image, energy) ==
    [energy EXCEPT !.data = [p \in DOMAIN energy.data |->
        IF p[2] >= 1 /\ p[2] < image.ncols /\ p[1] = 0
        THEN color_diff(image.data[p], image.data[<<0, p[2] - 1>>])
        ELSE energy.data[p]]]

\* horizontal, "No Edge Cases": for i in 1..ncols, for j in 1..border
horizontal_interior(image, energy, bound) ==
    [energy EXCEPT !.data = [p \in DOMAIN energy.data |->
        IF p[2] >= 1 /\ p[2] < image.ncols /\ p[1] >= 1 /\ p[1] < bound
        THEN color_diff(image.data[p], image.data[<<p[1] - 1, p[2]>>])
             + color_diff(image.data[p], image.data[<<p[1], p[2] - 1>>])
        ELSE energy.data[p]]]

\* horizontal, "Calculation of total energy", the body of the loop over i for
\* one column i: every cell of column i reads column i - 1 only
horizontal_total_column(energy, bound, i) ==
    [energy EXCEPT !.data = [p \in DOMAIN energy.data |->
        IF p[2] = i /\ p[1] < bound
        THEN LET j == p[1]
                 left == <<j - 1, i - 1>>
                 lower == <<j, i - 1>>
                 right == <<j + 1, i - 1>>
             IN  IF j = 0
                 THEN energy.data[p] + min(energy.data[lower], energy.data[right])
                 ELSE IF j = bound - 1
                 THEN energy.data[p] + min(energy.data[lower], energy.data[left])
                 ELSE energy.data[p]
                      + min(min(energy.data[lower], energy.data[left]), energy.data[right])
        ELSE energy.data[p]]]

RECURSIVE horizontal_total_columns(_, _, _, _)
\* horizontal, "Calculation of total energy": for i in i..ncols
horizontal_total_columns(energy, bound, i, ncols) ==
    IF i >= ncols THEN energy
    ELSE horizontal_total_columns(horizontal_total_column(energy, bound, i),
                                  bound, i + 1, ncols)

\* calculate_horizontal_energy_matrix(image, energy, bound)
calculate_horizontal_energy_matrix(image, energy, bound, checks) ==
    LET e1 == [energy EXCEPT !.data[<<0, 0>>] = 0]
        e2 == horizontal_first_column(image, e1, bound)
        e3 == horizontal_first_row(image, e2)
        e4 == horizontal_interior(image, e3, bound)
        st == total_energy_panic(image.ncols, bound, energy.nrows, checks)
    IN  IF bound > image.nrows THEN [status |-> "index", energy |-> e2]
        ELSE IF st # "ok" THEN [status |-> st, energy |-> e4]
        ELSE [status |-> "ok",
              energy |-> horizontal_total_columns(e4, bound, 1, image.ncols)]

-----------------------------------------------------------------------------
(* Seam finder (energy_utils.rs) *)

RECURSIVE min_energy_column_from(_, _, _, _)
\* the loop of calculate_min_energy_column from index i on, `column` the best so far
min_energy_column_from(energy, bound, column, i) ==
    IF i >= bound THEN column
    ELSE min_energy_column_from(energy, bound,
             IF energy.data[<<energy.nrows - 1, column>>] > energy.data[<<energy.nrows - 1, i>>]
             THEN i ELSE column,
             i + 1)

RECURSIVE min_energy_column_last_from(_, _, _, _)
\* the same loop comparing with >= : a later equal entry replaces the best
min_energy_column_last_from(energy, bound, column, i) ==
    IF i >= bound THEN column
    ELSE min_energy_column_last_from(energy, bound,
             IF energy.data[<<energy.nrows - 1, column>>] >= energy.data[<<energy.nrows - 1, i>>]
             THEN i ELSE column,
             i + 1)

calculate_min_energy_column_last(energy, bound) ==
    min_energy_column_last_from(energy, bound, 0, 1)

\* calculate_min_energy_column(energy, border)
calculate_min_energy_column(energy, bound) ==
    min_energy_column_from(energy, bound, 0, 1)

RECURSIVE min_energy_row_from(_, _, _, _)
\* the loop of calculate_min_energy_row from index i on, `row` the best so far
min_energy_row_from(energy, bound, row, i) ==
    IF i >= bound THEN row
    ELSE min_energy_row_from(energy, bound,
             IF energy.data[<<row, energy.ncols - 1>>] > energy.data[<<i, energy.ncols - 1>>]
             THEN i ELSE row,
             i + 1)

\* calculate_min_energy_row(energy, border)
calculate_min_energy_row(energy, bound) ==
    min_energy_row_from(energy, bound, 0, 1)

\* One backward step of calculate_optimal_vertical_path at loop index j, from
\* position c = seam[j]: the status and the chosen seam[j - 1].  The order of
\* the tests is the order of the source: the three index pairs are formed
\* first (`seam[j] - 1` underflows at 0), then each branch reads the energies
\* it compares.
vertical_trace_step(energy, bound, c, j, checks) ==
    LET left == <<j - 1, c - 1>>
        above == <<j - 1, c>>
        right == <<j - 1, c + 1>>
        ok(n) == [status |-> "ok", next |-> n]
        index == [status |-> "index", next |-> c]
        overflow == [status |-> "overflow", next |-> c]
        A == energy.data[above]
        L == energy.data[left]
        R == energy.data[right]
    IN  IF c = 0 /\ checks THEN overflow
        ELSE IF c = 0
        THEN \* Case: Left border
             IF ~InBounds(energy, above) \/ ~InBounds(energy, right) THEN index
             ELSE IF A <= R THEN ok(c) ELSE ok(c + 1)
        ELSE IF bound = 0 /\ checks THEN overflow
        ELSE IF c = wrapping_sub(bound, 1)
        THEN \* Case: Right Border
             IF ~InBounds(energy, above) \/ ~InBounds(energy, left) THEN index
             ELSE IF A <= L THEN ok(c) ELSE ok(c - 1)
        ELSE IF ~InBounds(energy, above) \/ ~InBounds(energy, left) THEN index
        ELSE IF ~InBounds(energy, right) THEN index
        ELSE IF A = L
        THEN \* Precedence for multiple optimal pixels
             IF A <= R THEN ok(c) ELSE ok(c + 1)
        ELSE IF A <= R
        THEN IF A <= L THEN ok(c) ELSE ok(c - 1)
        ELSE \* Remainder
             IF L < A /\ L <= R THEN ok(c - 1)
             ELSE IF A < L /\ A <= R THEN ok(c)
             ELSE ok(c + 1)

RECURSIVE vertical_path_from(_, _, _, _, _)
\* the loop of calculate_optimal_vertical_path: for j in (1..nrows).rev(), from j down
vertical_path_from(energy, bound, sm, j, checks) ==
    IF j < 1 THEN [status |-> "ok", seam |-> sm]
    ELSE LET st == vertical_trace_step(energy, bound, sm[j], j, checks)
         IN  IF st.status # "ok" THEN [status |-> st.status, seam |-> sm]
             ELSE vertical_path_from(energy, bound, [sm EXCEPT ![j - 1] = st.next],
                                     j - 1, checks)

\* calculate_optimal_vertical_path(energy, border, start)
calculate_optimal_vertical_path(energy, bound, start, checks) ==
    LET sm == [[j \in 0 .. energy.nrows - 1 |-> 0] EXCEPT ![energy.nrows - 1] = start]
    IN  vertical_path_from(energy, bound, sm, energy.nrows - 1, checks)

\* One backward step of calculate_optimal_horizontal_path at loop index j, from
\* position c = seam[j]: the status and the chosen seam[j - 1].  The order of
\* the tests is the order of the source: the three index pairs are formed
\* first (`seam[j] - 1` underflows at 0), then each branch reads the energies
\* it compares.
horizontal_trace_step(energy, bound, c, j, checks) ==
    LET left == <<c - 1, j - 1>>
        above == <<c, j - 1>>
        right == <<c + 1, j - 1>>
        ok(n) == [status |-> "ok", next |-> n]
        index == [status |-> "index", next |-> c]
        overflow == [status |-> "overflow", next |-> c]
        A == energy.data[above]
        L == energy.data[left]
        R == energy.data[right]
    IN  IF c = 0 /\ checks THEN overflow
        ELSE IF c = 0
        THEN \* Case: Left border
             IF ~InBounds(energy, above) \/ ~InBounds(energy, right) THEN index
             ELSE IF A <= R THEN ok(c) ELSE ok(c + 1)
        ELSE IF bound = 0 /\ checks THEN overflow
        ELSE IF c = wrapping_sub(bound, 1)
        THEN \* Case: Right Border
             IF ~InBounds(energy, above) \/ ~InBounds(energy, left) THEN index
             ELSE IF A <= L THEN ok(c) ELSE ok(c - 1)
        ELSE IF ~InBounds(energy, above) \/ ~InBounds(energy, left) THEN index
        ELSE IF ~InBounds(energy, right) THEN index
        ELSE IF A = L
        THEN \* Precedence for multiple optimal pixels
             IF A <= R THEN ok(c) ELSE ok(c + 1)
        ELSE IF A <= R
        THEN IF A <= L THEN ok(c) ELSE ok(c - 1)
        ELSE \* Remainder
             IF L < A /\ L <= R THEN ok(c - 1)
             ELSE IF A < L /\ A <= R THEN ok(c)
             ELSE ok(c + 1)

RECURSIVE horizontal_path_from(_, _, _, _, _)
\* the loop of calculate_optimal_horizontal_path: for j in (1..ncols).rev(), from j down
horizontal_path_from(energy, bound, sm, j, checks) ==
    IF j < 1 THEN [status |-> "ok", seam |-> sm]
    ELSE LET st == horizontal_trace_step(energy, bound, sm[j], j, checks)
         IN  IF st.status # "ok" THEN [status |-> st.status, seam |-> sm]
             ELSE horizontal_path_from(energy, bound, [sm EXCEPT ![j - 1] = st.next],
                                       j - 1, checks)

\* calculate_optimal_horizontal_path(energy, border, start)
calculate_optimal_horizontal_path(energy, bound, start, checks) ==
    LET sm == [[j \in 0 .. energy.ncols - 1 |-> 0] EXCEPT ![energy.ncols - 1] = start]
    IN  horizontal_path_from(energy, bound, sm, energy.ncols - 1, checks)

-----------------------------------------------------------------------------
(* Seam removal and the seam_carve loop (image_utils.rs) *)

\* the inner loop with its start one column late: for i in col + 1..upper
carve_vertical_row_late(pix, upper, col, j) ==
    [pix EXCEPT !.data = [p \in DOMAIN pix.data |->
        IF p[1] = j /\ p[2] >= col + 1 /\ p[2] < min(upper, pix.ncols - 1)
        THEN pix.data[<<j, p[2] + 1>>]
        ELSE pix.data[p]]]

\* carve_vertical_path, the inner loop for row j: for i in col..upper copies
\* (j, i + 1) to (j, i) in ascending i, up to the first i + 1 outside the grid
carve_vertical_row(pix, upper, col, j) ==
    [pix EXCEPT !.data = [p \in DOMAIN pix.data |->
        IF p[1] = j /\ p[2] >= col /\ p[2] < min(upper, pix.ncols - 1)
        THEN pix.data[<<j, p[2] + 1>>]
        ELSE pix.data[p]]]

RECURSIVE carve_vertical_rows(_, _, _, _)
\* carve_vertical_path, the outer loop from row j on: for j in 0..nrows
carve_vertical_rows(pix, upper, sm, j) ==
    IF j >= pix.nrows THEN [status |-> "ok", pixels |-> pix]
    ELSE LET col == sm[j]
             shifted == carve_vertical_row(pix, upper, col, j)
         IN  IF col < upper /\ upper >= pix.ncols
             THEN [status |-> "index", pixels |-> shifted]
             ELSE carve_vertical_rows(shifted, upper, sm, j + 1)

\* carve_vertical_path(border, seam); `border - 1` is evaluated in the first row
carve_vertical_path(pix, bound, sm, checks) ==
    IF pix.nrows >= 1 /\ bound = 0 /\ checks
    THEN [status |-> "overflow", pixels |-> pix]
    ELSE carve_vertical_rows(pix, wrapping_sub(bound, 1), sm, 0)

\* the inner loop with its start one row late: for i in row + 1..upper
carve_horizontal_column_late(pix, upper, row, j) ==
    [pix EXCEPT !.data = [p \in DOMAIN pix.data |->
        IF p[2] = j /\ p[1] >= row + 1 /\ p[1] < min(upper, pix.nrows - 1)
        THEN pix.data[<<p[1] + 1, j>>]
        ELSE pix.data[p]]]

\* carve_horizontal_path, the inner loop for column j: for i in row..upper
\* copies (i + 1, j) to (i, j) in ascending i
carve_horizontal_column(pix, upper, row, j) ==
    [pix EXCEPT !.data = [p \in DOMAIN pix.data |->
        IF p[2] = j /\ p[1] >= row /\ p[1] < min(upper, pix.nrows - 1)
        THEN pix.data[<<p[1] + 1, j>>]
        ELSE pix.data[p]]]

RECURSIVE carve_horizontal_columns(_, _, _, _)
\* carve_horizontal_path, the outer loop from column j on: for j in 0..ncols
carve_horizontal_columns(pix, upper, sm, j) ==
    IF j >= pix.ncols THEN [status |-> "ok", pixels |-> pix]
    ELSE LET row == sm[j]
             shifted == carve_horizontal_column(pix, upper, row, j)
         IN  IF row < upper /\ upper >= pix.nrows
             THEN [status |-> "index", pixels |-> shifted]
             ELSE carve_horizontal_columns(shifted, upper, sm, j + 1)

\* carve_horizontal_path(border, seam)
carve_horizontal_path(pix, bound, sm, checks) ==
    IF pix.ncols >= 1 /\ bound = 0 /\ checks
    THEN [status |-> "overflow", pixels |-> pix]
    ELSE carve_horizontal_columns(pix, wrapping_sub(bound, 1), sm, 0)

\* the sample pixels grids are filled with
Palette == {Pixel(0, 0, 0), Pixel(255, 255, 255)}

\* every grid of a shape filled from vals
Grids(sh, vals) == {[nrows |-> sh[1], ncols |-> sh[2], data |-> d] :
                        d \in [Cells(sh[1], sh[2]) -> vals]}

\* the shapes of the grids of at most `cells` cells
Shapes(cells) == {sh \in (1 .. MaxSide) \X (1 .. MaxSide) : sh[1] * sh[2] <= cells}

\* every grid of at most `cells` cells filled from vals
AllGrids(cells, vals) == UNION {Grids(sh, vals) : sh \in Shapes(cells)}

\* placeholders for variables an operation has not assigned yet
NoMatrix == from_element(0, 0, 0)
NoSeam == <<>>
NoPixel == Pixel(0, 0, 0)

\* landfill and the tall sweep before they run
NoLandfill == coords = <<0, 0>> /\ rgb = NoPixel /\ original_point = NoPixel /\ stack = <<>>
NoSweep == total_i = 0 /\ total_row = <<>>

\* seam_carve, up to the loop: width/height, border and the zeroed energy matrix
seam_carve_begin ==
    /\ pc = "seam_carve"
    /\ width' = IF vertical THEN pixels.ncols ELSE pixels.nrows
    /\ border' = IF vertical THEN pixels.ncols ELSE pixels.nrows
    /\ energy_matrix' = from_element(pixels.nrows, pixels.ncols, 0)
    /\ done_iters' = 0
    /\ pc' = "loop"
    /\ UNCHANGED <<overflow_checks, pixels, pixels0, energy_in, vertical, iterations,
                   x, seam, iter_pixels, status, pixel1, pixel2, diff, fill_vars, sweep_vars>>

\* loop body, first statement: the energy matrix, computed with `width`/`height`
seam_carve_energy ==
    /\ pc = "loop"
    /\ done_iters < iterations
    /\ LET r == IF vertical
                THEN calculate_vertical_energy_matrix(pixels, energy_matrix, width,
                                                      overflow_checks)
                ELSE calculate_horizontal_energy_matrix(pixels, energy_matrix, width,
                                                        overflow_checks)
       IN  /\ energy_matrix' = r.energy
           /\ status' = r.status
           /\ pc' = IF r.status = "ok" THEN "min" ELSE "panic"
    /\ iter_pixels' = pixels
    /\ energy_in' = energy_matrix
    /\ UNCHANGED <<overflow_checks, pixels, pixels0, vertical, iterations, width, border,
                   x, seam, done_iters, pixel1, pixel2, diff, fill_vars, sweep_vars>>

\* loop body, second statement: the endpoint with the least energy
seam_carve_min ==
    /\ pc = "min"
    /\ x' = IF vertical THEN calculate_min_energy_column(energy_matrix, border)
            ELSE calculate_min_energy_row(energy_matrix, border)
    /\ pc' = "path"
    /\ UNCHANGED <<overflow_checks, pixels, pixels0, energy_matrix, energy_in, vertical,
                   iterations, width, border, seam, done_iters, iter_pixels, status,
                   pixel1, pixel2, diff, fill_vars, sweep_vars>>

\* loop body, third statement: the seam
seam_carve_path ==
    /\ pc = "path"
    /\ LET r == IF vertical
                THEN calculate_optimal_vertical_path(energy_matrix, border, x,
                                                     overflow_checks)
                ELSE calculate_optimal_horizontal_path(energy_matrix, border, x,
                                                       overflow_checks)
       IN  /\ seam' = r.seam
           /\ status' = r.status
           /\ pc' = IF r.status = "ok" THEN "carve" ELSE "panic"
    /\ UNCHANGED <<overflow_checks, pixels, pixels0, energy_matrix, energy_in, vertical,
                   iterations, width, border, x, done_iters, iter_pixels,
                   pixel1, pixel2, diff, fill_vars, sweep_vars>>

\* loop body, last two statements: the seam is carved and border -= 1
seam_carve_carve ==
    /\ pc = "carve"
    /\ LET r == IF vertical THEN carve_vertical_path(pixels, border, seam, overflow_checks)
                ELSE carve_horizontal_path(pixels, border, seam, overflow_checks)
           st == IF r.status = "ok" /\ border = 0 /\ overflow_checks
                 THEN "overflow" ELSE r.status
       IN  /\ pixels' = r.pixels
           /\ status' = st
           /\ border' = IF st = "ok" THEN wrapping_sub(border, 1) ELSE border
           /\ done_iters' = IF st = "ok" THEN done_iters + 1 ELSE done_iters
           /\ pc' = IF st = "ok" THEN "loop" ELSE "panic"
    /\ UNCHANGED <<overflow_checks, pixels0, energy_matrix, energy_in, vertical,
                   iterations, width, x, seam, iter_pixels, pixel1, pixel2, diff, fill_vars, sweep_vars>>

\* after the loop: crop to width - iterations (height - iterations); crop
\* asserts that the new bound is inside the grid and writes the file
seam_carve_crop ==
    /\ pc = "loop"
    /\ done_iters >= iterations
    /\ status' = IF iterations <= width THEN "ok"
                 ELSE IF overflow_checks THEN "overflow" ELSE "assert"
    /\ pc' = IF iterations <= width THEN "done" ELSE "panic"
    /\ UNCHANGED <<overflow_checks, pixels, pixels0, energy_matrix, energy_in, vertical,
                   iterations, width, border, x, seam, done_iters, iter_pixels,
                   pixel1, pixel2, diff, fill_vars, sweep_vars>>

\* seam_carve(iterations, output, vertical) on any grid of the model
Init ==
    /\ overflow_checks \in BOOLEAN
    /\ vertical \in BOOLEAN
    /\ iterations \in 0 .. MaxIter
    /\ pixels \in AllGrids(MaxCells, Palette)
    /\ pixels0 = pixels
    /\ iter_pixels = pixels
    /\ energy_matrix = NoMatrix
    /\ energy_in = NoMatrix
    /\ width = 0
    /\ border = 0
    /\ x = 0
    /\ seam = NoSeam
    /\ done_iters = 0
    /\ status = "ok"
    /\ pc = "seam_carve"
    /\ pixel1 = NoPixel
    /\ pixel2 = NoPixel
    /\ diff = 0
    /\ NoLandfill
    /\ NoSweep

Next ==
    \/ seam_carve_begin
    \/ seam_carve_energy
    \/ seam_carve_min
    \/ seam_carve_path
    \/ seam_carve_carve
    \/ seam_carve_crop

Spec == Init /\ [][Next]_vars

-----------------------------------------------------------------------------
(* Direct calls of the single functions, on any input of the model *)

\* the variables no direct call touches
CallFrame == <<overflow_checks, pixels0, iterations, width, done_iters, iter_pixels>>

\* carve_vertical_path(border, seam) with any bound inside the grid and any
\* seam inside the bound
call_carve_vertical_path ==
    /\ pc = "call_carve"
    /\ \E b \in 1 .. pixels.ncols : \E sm \in [0 .. pixels.nrows - 1 -> 0 .. b - 1] :
          LET r == carve_vertical_path(pixels, b, sm, overflow_checks)
          IN  /\ pixels' = r.pixels
              /\ status' = r.status
              /\ border' = b
              /\ seam' = sm
    /\ vertical' = TRUE
    /\ pc' = "carved"
    /\ UNCHANGED <<CallFrame, energy_matrix, energy_in, x, pixel1, pixel2, diff, fill_vars, sweep_vars>>

\* carve_horizontal_path(border, seam) with any bound inside the grid and any
\* seam inside the bound
call_carve_horizontal_path ==
    /\ pc = "call_carve"
    /\ \E b \in 1 .. pixels.nrows : \E sm \in [0 .. pixels.ncols - 1 -> 0 .. b - 1] :
          LET r == carve_horizontal_path(pixels, b, sm, overflow_checks)
          IN  /\ pixels' = r.pixels
              /\ status' = r.status
              /\ border' = b
              /\ seam' = sm
    /\ vertical' = FALSE
    /\ pc' = "carved"
    /\ UNCHANGED <<CallFrame, energy_matrix, energy_in, x, pixel1, pixel2, diff, fill_vars, sweep_vars>>

\* calculate_vertical_energy_matrix(image, energy, border) with any bound from
\* 0 to one past the width
call_vertical_energy_matrix ==
    /\ pc = "call_energy"
    /\ \E b \in 0 .. pixels.ncols + 1 :
          LET r == calculate_vertical_energy_matrix(pixels, energy_matrix, b,
                                                    overflow_checks)
          IN  /\ energy_matrix' = r.energy
              /\ status' = r.status
              /\ border' = b
    /\ vertical' = TRUE
    /\ pc' = "energy_done"
    /\ UNCHANGED <<CallFrame, pixels, energy_in, x, seam, pixel1, pixel2, diff, fill_vars, sweep_vars>>

\* calculate_horizontal_energy_matrix(image, energy, border) with any bound
\* from 0 to one past the height
call_horizontal_energy_matrix ==
    /\ pc = "call_energy"
    /\ \E b \in 0 .. pixels.nrows + 1 :
          LET r == calculate_horizontal_energy_matrix(pixels, energy_matrix, b,
                                                      overflow_checks)
          IN  /\ energy_matrix' = r.energy
              /\ status' = r.status
              /\ border' = b
    /\ vertical' = FALSE
    /\ pc' = "energy_done"
    /\ UNCHANGED <<CallFrame, pixels, energy_in, x, seam, pixel1, pixel2, diff, fill_vars, sweep_vars>>

\* calculate_min_energy_column(energy, border) with any bound inside the grid;
\* it may be run again on the grid it has searched
call_min_energy_column ==
    /\ pc \in {"call_finder", "min_done"}
    /\ pc = "min_done" => vertical
    /\ \E b \in 1 .. energy_matrix.ncols :
          /\ pc = "min_done" => b = border
          /\ x' = calculate_min_energy_column(energy_matrix, b)
          /\ border' = b
    /\ vertical' = TRUE
    /\ pc' = "min_done"
    /\ UNCHANGED <<CallFrame, pixels, energy_matrix, energy_in, seam, status,
                   pixel1, pixel2, diff, fill_vars, sweep_vars>>

\* calculate_min_energy_row(energy, border) with any bound inside the grid
call_min_energy_row ==
    /\ pc \in {"call_finder", "min_done"}
    /\ pc = "min_done" => ~vertical
    /\ \E b \in 1 .. energy_matrix.nrows :
          /\ pc = "min_done" => b = border
          /\ x' = calculate_min_energy_row(energy_matrix, b)
          /\ border' = b
    /\ vertical' = FALSE
    /\ pc' = "min_done"
    /\ UNCHANGED <<CallFrame, pixels, energy_matrix, energy_in, seam, status,
                   pixel1, pixel2, diff, fill_vars, sweep_vars>>

\* calculate_optimal_vertical_path(energy, border, start) with any bound
\* inside the grid and any start inside the bound
call_optimal_vertical_path ==
    /\ pc = "call_finder"
    /\ \E b \in 1 .. energy_matrix.ncols : \E start \in 0 .. b - 1 :
          LET r == calculate_optimal_vertical_path(energy_matrix, b, start,
                                                   overflow_checks)
          IN  /\ seam' = r.seam
              /\ status' = r.status
              /\ border' = b
              /\ x' = start
    /\ vertical' = TRUE
    /\ pc' = "path_done"
    /\ UNCHANGED <<CallFrame, pixels, energy_matrix, energy_in, pixel1, pixel2, diff, fill_vars, sweep_vars>>

\* calculate_optimal_horizontal_path(energy, border, start) with any bound
\* inside the grid and any start inside the bound
call_optimal_horizontal_path ==
    /\ pc = "call_finder"
    /\ \E b \in 1 .. energy_matrix.nrows : \E start \in 0 .. b - 1 :
          LET r == calculate_optimal_horizontal_path(energy_matrix, b, start,
                                                     overflow_checks)
          IN  /\ seam' = r.seam
              /\ status' = r.status
              /\ border' = b
              /\ x' = start
    /\ vertical' = FALSE
    /\ pc' = "path_done"
    /\ UNCHANGED <<CallFrame, pixels, energy_matrix, energy_in, pixel1, pixel2, diff, fill_vars, sweep_vars>>

\* Pixel::color_diff(pixel1, pixel2)
call_color_diff ==
    /\ pc = "call_diff"
    /\ diff' = color_diff(pixel1, pixel2)
    /\ pc' = "diff_done"
    /\ UNCHANGED <<CallFrame, pixels, energy_matrix, energy_in, vertical, border, x,
                   seam, status, pixel1, pixel2,
                   fill_vars, sweep_vars>>

\* the values a variable holds while its operation is not running
Idle ==
    /\ energy_matrix = NoMatrix
    /\ energy_in = NoMatrix
    /\ width = 0
    /\ border = 0
    /\ x = 0
    /\ seam = NoSeam
    /\ done_iters = 0
    /\ status = "ok"
    /\ pixel1 = NoPixel
    /\ pixel2 = NoPixel
    /\ diff = 0
    /\ NoLandfill
    /\ NoSweep

\* seam_carve, or one direct call of a carve function, on a small grid
InitCarve ==
    /\ overflow_checks \in BOOLEAN
    /\ pixels \in AllGrids(SmallCells, Palette)
    /\ pixels0 = pixels
    /\ iter_pixels = pixels
    /\ \/ pc = "seam_carve" /\ vertical \in BOOLEAN /\ iterations \in 0 .. DrainIter
       \/ pc = "call_carve" /\ vertical = TRUE /\ iterations = 0
    /\ Idle

NextCarve ==
    \/ Next
    \/ call_carve_vertical_path
    \/ call_carve_horizontal_path

SpecCarve == InitCarve /\ [][NextCarve]_vars

\* what an energy buffer is filled with when it is handed to a direct call
BufferFills == {0, 1}

\* one direct call of an energy function on a small grid and a filled buffer
InitEnergy ==
    /\ overflow_checks \in BOOLEAN
    /\ pixels \in AllGrids(SmallCells, Palette)
    /\ pixels0 = pixels
    /\ iter_pixels = pixels
    /\ \E fill \in BufferFills :
          energy_matrix = from_element(pixels.nrows, pixels.ncols, fill)
    /\ energy_in = energy_matrix
    /\ vertical = TRUE
    /\ iterations = 0
    /\ width = 0
    /\ border = 0
    /\ x = 0
    /\ seam = NoSeam
    /\ done_iters = 0
    /\ status = "ok"
    /\ pc = "call_energy"
    /\ pixel1 = NoPixel
    /\ pixel2 = NoPixel
    /\ diff = 0
    /\ NoLandfill
    /\ NoSweep

NextEnergy ==
    \/ call_vertical_energy_matrix
    \/ call_horizontal_energy_matrix

SpecEnergy == InitEnergy /\ [][NextEnergy]_vars

\* the energies of the grids handed to the seam finder
EnergyVals == {0, 1, 2}

\* one direct call of a seam finder function on any small energy grid
InitFinder ==
    /\ overflow_checks \in BOOLEAN
    /\ pixels = NoMatrix
    /\ pixels0 = NoMatrix
    /\ iter_pixels = NoMatrix
    /\ energy_matrix \in AllGrids(FinderCells, EnergyVals)
    /\ energy_in = energy_matrix
    /\ vertical = TRUE
    /\ iterations = 0
    /\ width = 0
    /\ border = 0
    /\ x = 0
    /\ seam = NoSeam
    /\ done_iters = 0
    /\ status = "ok"
    /\ pc = "call_finder"
    /\ pixel1 = NoPixel
    /\ pixel2 = NoPixel
    /\ diff = 0
    /\ NoLandfill
    /\ NoSweep

NextFinder ==
    \/ call_min_energy_column
    \/ call_min_energy_row
    \/ call_optimal_vertical_path
    \/ call_optimal_horizontal_path

SpecFinder == InitFinder /\ [][NextFinder]_vars

\* the channel values of the pixels handed to color_diff
ChannelVals == {0, 1, 128, 255}

\* one call of color_diff on any two sample pixels
InitPixel ==
    /\ overflow_checks \in BOOLEAN
    /\ pixels = NoMatrix
    /\ pixels0 = NoMatrix
    /\ iter_pixels = NoMatrix
    /\ energy_matrix = NoMatrix
    /\ energy_in = NoMatrix
    /\ vertical = TRUE
    /\ iterations = 0
    /\ width = 0
    /\ border = 0
    /\ x = 0
    /\ seam = NoSeam
    /\ done_iters = 0
    /\ status = "ok"
    /\ pc = "call_diff"
    /\ pixel1 \in {Pixel(r, g, b) : r \in ChannelVals, g \in ChannelVals, b \in ChannelVals}
    /\ pixel2 \in {Pixel(r, g, b) : r \in ChannelVals, g \in ChannelVals, b \in ChannelVals}
    /\ diff = 0
    /\ NoLandfill
    /\ NoSweep

NextPixel == call_color_diff

SpecPixel == InitPixel /\ [][NextPixel]_vars

\* one direct call of any function of the kernel, on any input of the model
InitKernel ==
    \/ InitEnergy
    \/ InitFinder
    \/ InitCarve /\ pc = "call_carve"

NextKernel ==
    \/ NextEnergy
    \/ NextFinder
    \/ call_carve_vertical_path
    \/ call_carve_horizontal_path

SpecKernel == InitKernel /\ [][NextKernel]_vars

-----------------------------------------------------------------------------
(* The energy computation on a tall image, in the width of an energy cell   *)
(* (DMatrix<u32>).  The image has TallRows rows that repeat the rows of the  *)
(* grid `pixels` in turn; the bound is the full width, as in the first       *)
(* iteration of seam_carve.  The total-energy sweep reads row i - 1 and row  *)
(* i only, so the state keeps the one row the sweep has just left.           *)

\* the rows of the tall image
TallRows == 22018

\* 2^16: a u32 is held as its two 16-bit halves [hi, lo]
U16 == 65536

\* the u32 of a number below 2^31
u32_from(n) == [hi |-> n \div U16, lo |-> n % U16]

u32_le(a, b) == a.hi < b.hi \/ (a.hi = b.hi /\ a.lo <= b.lo)

\* std::cmp::min on u32
u32_min(a, b) == IF u32_le(a, b) THEN a ELSE b

\* a + b on u32: whether the sum exceeds u32::MAX, and the sum modulo 2^32
u32_add(a, b) ==
    LET lo == a.lo + b.lo
        hi == a.hi + b.hi + lo \div U16
    IN  [overflow |-> hi >= U16, value |-> [hi |-> hi % U16, lo |-> lo % U16]]

\* image.pixels[(i, j)] of the tall image
tall_pixel(i, j) == pixels.data[<<i % pixels.nrows, j>>]

\* the local energy the first three loops leave at (i, j)
tall_local_energy(i, j) ==
    IF i = 0 /\ j = 0 THEN 0
    ELSE IF i = 0 THEN color_diff(tall_pixel(0, j), tall_pixel(0, j - 1))
    ELSE IF j = 0 THEN color_diff(tall_pixel(i, 0), tall_pixel(i - 1, 0))
    ELSE color_diff(tall_pixel(i, j), tall_pixel(i, j - 1))
         + color_diff(tall_pixel(i, j), tall_pixel(i - 1, j))

\* energy[current] += min(...) for current = (i, j), given row i - 1
tall_total_cell(prev, bound, i, j) ==
    LET current == u32_from(tall_local_energy(i, j))
    IN  IF j = 0 THEN u32_add(current, u32_min(prev[j], prev[j + 1]))
        ELSE IF j = bound - 1 THEN u32_add(current, u32_min(prev[j], prev[j - 1]))
        ELSE u32_add(current, u32_min(u32_min(prev[j], prev[j - 1]), prev[j + 1]))

\* the local-energy loops: what they leave in row 0, which the sweep reads first
tall_local_pass ==
    /\ pc = "call_tall"
    /\ total_i' = 0
    /\ total_row' = [j \in 0 .. width - 1 |-> u32_from(tall_local_energy(0, j))]
    /\ pc' = "total"
    /\ UNCHANGED <<overflow_checks, pixels, pixels0, energy_matrix, energy_in, vertical,
                   iterations, width, border, x, seam, done_iters, iter_pixels, status,
                   pixel1, pixel2, diff, fill_vars>>

\* "Calculation of total energy": one turn of the loop over i, all j in 0..border
tall_total_row ==
    /\ pc = "total"
    /\ total_i + 1 < TallRows
    /\ LET i == total_i + 1
           first == IF i = 1
                    THEN total_energy_panic(TallRows, border, width, overflow_checks)
                    ELSE "ok"
           sums == [j \in 0 .. border - 1 |-> tall_total_cell(total_row, border, i, j)]
           over == \E j \in 0 .. border - 1 : sums[j].overflow
       IN  IF first # "ok"
           THEN /\ status' = first
                /\ pc' = "panic"
                /\ UNCHANGED sweep_vars
           ELSE IF over /\ overflow_checks
           THEN /\ status' = "energy_overflow"
                /\ pc' = "panic"
                /\ UNCHANGED sweep_vars
           ELSE /\ status' = IF over THEN "wrapped" ELSE status
                /\ pc' = "total"
                /\ total_i' = i
                /\ total_row' = [j \in 0 .. border - 1 |-> sums[j].value]
    /\ UNCHANGED <<overflow_checks, pixels, pixels0, energy_matrix, energy_in, vertical,
                   iterations, width, border, x, seam, done_iters, iter_pixels,
                   pixel1, pixel2, diff, fill_vars>>

\* the loop over i ends at the last row
tall_total_done ==
    /\ pc = "total"
    /\ total_i + 1 >= TallRows
    /\ pc' = "swept"
    /\ UNCHANGED <<overflow_checks, pixels, pixels0, energy_matrix, energy_in, vertical,
                   iterations, width, border, x, seam, done_iters, iter_pixels, status,
                   pixel1, pixel2, diff, fill_vars, sweep_vars>>

\* calculate_vertical_energy_matrix on a tall image of two columns whose rows
\* repeat with period two
InitTall ==
    /\ overflow_checks \in BOOLEAN
    /\ pixels \in Grids(<<2, 2>>, Palette)
    /\ pixels0 = pixels
    /\ iter_pixels = pixels
    /\ energy_matrix = NoMatrix
    /\ energy_in = NoMatrix
    /\ vertical = TRUE
    /\ iterations = 0
    /\ width = pixels.ncols
    /\ border = pixels.ncols
    /\ x = 0
    /\ seam = NoSeam
    /\ done_iters = 0
    /\ status = "ok"
    /\ pc = "call_tall"
    /\ pixel1 = NoPixel
    /\ pixel2 = NoPixel
    /\ diff = 0
    /\ NoLandfill
    /\ NoSweep

NextTall ==
    \/ tall_local_pass
    \/ tall_total_row
    \/ tall_total_done

SpecTall == InitTall /\ [][NextTall]_vars

-----------------------------------------------------------------------------
(* landfill *)

\* Image::inside: the pixel has the colour of the point
inside(point, pixel) ==
    /\ point.red = pixel.red
    /\ point.green = pixel.green
    /\ point.blue = pixel.blue

\* one neighbour test of the loop: the cell (y2, x2) is pushed when it lies in
\* the grid and has the colour of the point
landfill_visit(pix, point, stk, y2, x2) ==
    IF x2 < pix.ncols /\ y2 < pix.nrows /\ inside(point, pix.data[<<y2, x2>>])
    THEN Append(stk, <<y2, x2>>)
    ELSE stk

\* one pass of the body of `while !stack.is_empty()`: pop, paint, then the
\* tests of the right, left, lower and upper neighbour in that order; x1 - 1
\* and y1 - 1 are computed on usize
landfill_body(pix, point, fill, stk, checks) ==
    LET top == stk[Len(stk)]
        rest == SubSeq(stk, 1, Len(stk) - 1)
        y1 == top[1]
        x1 == top[2]
        painted == IF inside(point, pix.data[<<y1, x1>>])
                   THEN [pix EXCEPT !.data[<<y1, x1>>] = fill]
                   ELSE pix
        s1 == landfill_visit(painted, point, rest, y1, x1 + 1)
        s2 == landfill_visit(painted, point, s1, y1, wrapping_sub(x1, 1))
        s3 == landfill_visit(painted, point, s2, y1 + 1, x1)
        s4 == landfill_visit(painted, point, s3, wrapping_sub(y1, 1), x1)
    IN  IF checks /\ x1 = 0
        THEN [status |-> "overflow", pixels |-> painted, stack |-> s1]
        ELSE IF checks /\ y1 = 0
        THEN [status |-> "overflow", pixels |-> painted, stack |-> s3]
        ELSE [status |-> "ok", pixels |-> painted, stack |-> s4]

\* landfill up to the loop: the early return, the read of the seed's colour
\* and the push of the seed
landfill_begin ==
    /\ pc = "call_landfill"
    /\ LET y == coords[1]
           x0 == coords[2]
       IN  IF x0 >= pixels.ncols /\ y >= pixels.nrows
           THEN /\ pc' = "returned"
                /\ UNCHANGED <<status, original_point, stack>>
           ELSE IF x0 >= pixels.ncols \/ y >= pixels.nrows
           THEN /\ pc' = "panic"
                /\ status' = "index"
                /\ UNCHANGED <<original_point, stack>>
           ELSE /\ pc' = "fill"
                /\ original_point' = pixels.data[<<y, x0>>]
                /\ stack' = <<coords>>
                /\ UNCHANGED status
    /\ UNCHANGED <<overflow_checks, pixels, pixels0, energy_matrix, energy_in, vertical,
                   iterations, width, border, x, seam, done_iters, iter_pixels,
                   pixel1, pixel2, diff, coords, rgb, sweep_vars>>

\* one pass of the loop of landfill
landfill_step ==
    /\ pc = "fill"
    /\ stack # <<>>
    /\ IF Len(stack) > MaxStack
       THEN /\ pc' = "stack_limit"
            /\ UNCHANGED <<pixels, stack, status>>
       ELSE LET r == landfill_body(pixels, original_point, rgb, stack, overflow_checks)
            IN  /\ pixels' = r.pixels
                /\ stack' = r.stack
                /\ status' = r.status
                /\ pc' = IF r.status = "ok" THEN "fill" ELSE "panic"
    /\ UNCHANGED <<overflow_checks, pixels0, energy_matrix, energy_in, vertical,
                   iterations, width, border, x, seam, done_iters, iter_pixels,
                   pixel1, pixel2, diff, coords, rgb, original_point, sweep_vars>>

\* the loop ends on the empty worklist and the grid is written out
landfill_write ==
    /\ pc = "fill"
    /\ stack = <<>>
    /\ pc' = "filled"
    /\ UNCHANGED <<overflow_checks, pixels, pixels0, energy_matrix, energy_in, vertical,
                   iterations, width, border, x, seam, done_iters, iter_pixels, status,
                   pixel1, pixel2, diff, fill_vars, sweep_vars>>

\* the fill colours: the colours of the grids and one that no grid holds
FillColours == Palette \cup {Pixel(255, 0, 0)}

\* landfill on a small grid, with a seed inside the grid or one step outside
InitLandfill ==
    /\ overflow_checks \in BOOLEAN
    /\ pixels \in AllGrids(FillCells, Palette)
    /\ pixels0 = pixels
    /\ iter_pixels = pixels
    /\ energy_matrix = NoMatrix
    /\ energy_in = NoMatrix
    /\ vertical = TRUE
    /\ iterations = 0
    /\ width = 0
    /\ border = 0
    /\ x = 0
    /\ seam = NoSeam
    /\ done_iters = 0
    /\ status = "ok"
    /\ pc = "call_landfill"
    /\ pixel1 = NoPixel
    /\ pixel2 = NoPixel
    /\ diff = 0
    /\ coords \in (0 .. pixels.nrows) \X (0 .. pixels.ncols)
    /\ rgb \in FillColours
    /\ original_point = NoPixel
    /\ stack = <<>>
    /\ NoSweep

NextLandfill ==
    \/ landfill_begin
    \/ landfill_step
    \/ landfill_write

SpecLandfill == InitLandfill /\ [][NextLandfill]_vars

\* landfill is one sequential call: while a step of it is possible it is taken
SpecLandfillFair == SpecLandfill /\ WF_vars(NextLandfill)

-----------------------------------------------------------------------------
(* Notions the claims are stated in *)

Abs(n) == IF n < 0 THEN -n ELSE n

\* the local energy of a cell, as the claims define it: 0 at the origin, the
\* distance to the left neighbour in row 0, to the upper neighbour in column
\* 0, and the sum of both elsewhere
LocalEnergy(pix, i, j) ==
    IF i = 0 /\ j = 0 THEN 0
    ELSE IF i = 0 THEN color_diff(pix.data[<<0, j>>], pix.data[<<0, j - 1>>])
    ELSE IF j = 0 THEN color_diff(pix.data[<<i, 0>>], pix.data[<<i - 1, 0>>])
    ELSE color_diff(pix.data[<<i, j>>], pix.data[<<i, j - 1>>])
         + color_diff(pix.data[<<i, j>>], pix.data[<<i - 1, j>>])

\* the connected paths of `len` steps through positions 0 .. b - 1
Paths(len, b) ==
    {f \in [0 .. len - 1 -> 0 .. b - 1] : \A k \in 1 .. len - 1 : Abs(f[k] - f[k - 1]) <= 1}

RECURSIVE VerticalSum(_, _, _)
\* the local energy along the cells (r, f[r]) for r = 0 .. last
VerticalSum(pix, f, last) ==
    IF last < 0 THEN 0
    ELSE LocalEnergy(pix, last, f[last]) + VerticalSum(pix, f, last - 1)

RECURSIVE HorizontalSum(_, _, _)
\* the local energy along the cells (f[c], c) for c = 0 .. last
HorizontalSum(pix, f, last) ==
    IF last < 0 THEN 0
    ELSE LocalEnergy(pix, f[last], last) + HorizontalSum(pix, f, last - 1)

\* the least element of a non-empty set of numbers
Least(S) == CHOOSE m \in S : \A n \in S : m <= n

\* the least local-energy sum of a connected path through rows 0 .. i that
\* stays in columns [0, b) and ends in column j
MinVerticalTo(pix, b, i, j) ==
    Least({VerticalSum(pix, f, i) : f \in {g \in Paths(i + 1, b) : g[i] = j}})

\* the least local-energy sum of a connected path through columns 0 .. i
\* that stays in rows [0, b) and ends in row j
MinHorizontalTo(pix, b, i, j) ==
    Least({HorizontalSum(pix, f, i) : f \in {g \in Paths(i + 1, b) : g[i] = j}})

\* the dimension seams are carved along, and the length of a seam
Dimension(pix, vert) == IF vert THEN pix.ncols ELSE pix.nrows
SeamLength(pix, vert) == IF vert THEN pix.nrows ELSE pix.ncols

\* the live cells of a grid under bound b
LiveCells(pix, vert, b) ==
    {p \in DOMAIN pix.data : IF vert THEN p[2] < b ELSE p[1] < b}

-----------------------------------------------------------------------------
(* Claims about seam_carve, checked under Spec *)

\* the grid `now` holds, in the live positions under bound b - 1, the entries
\* of `before` under bound b with the entry at the seam deleted from every
\* row (column, for a horizontal seam), in the same order
SeamDeleted(before, now, vert, b, sm) ==
    \A p \in LiveCells(now, vert, b - 1) :
        now.data[p] =
            IF vert
            THEN before.data[<<p[1], IF p[2] < sm[p[1]] THEN p[2] ELSE p[2] + 1>>]
            ELSE before.data[<<IF p[1] < sm[p[2]] THEN p[1] ELSE p[1] + 1, p[2]>>]

\* C1: removing one seam whose entries lie in [0, border) leaves, in every row
\* (column, for a horizontal seam), the former entries [0, border) with the
\* single entry at the seam deleted, in the same order, in positions
\* [0, border - 1) -- for a direct call of carve_vertical_path or
\* carve_horizontal_path with any such seam, which then returns normally, and
\* for the seam an iteration of seam_carve carves; and each completed
\* iteration of seam_carve lowers border by exactly 1.
C1_SeamRemoved ==
    /\ pc = "carved" =>
          /\ status = "ok"
          /\ SeamDeleted(pixels0, pixels, vertical, border, seam)
    /\ (pc = "loop" /\ done_iters >= 1) =>
          /\ border = width - done_iters
          /\ (\A k \in DOMAIN seam : seam[k] < border + 1) =>
                SeamDeleted(iter_pixels, pixels, vertical, border + 1, seam)

\* C1 witness: seam_carve (release build) has removed a second vertical seam
\* that lay inside the bound, and the removal moved pixels
C1_Witness ==
    /\ pc = "loop" /\ done_iters = 2 /\ vertical /\ ~overflow_checks
    /\ \A k \in DOMAIN seam : seam[k] < border + 1
    /\ \E k \in DOMAIN seam : seam[k] < border
    /\ pixels # iter_pixels

\* C3 as stated: the seam traced in an iteration has the least local-energy
\* sum among the connected paths inside [0, border) of the current grid
C3_SeamIsMinimal ==
    (pc = "carve" /\ border >= 1) =>
        IF vertical
        THEN /\ \A k \in DOMAIN seam : seam[k] < border
             /\ VerticalSum(pixels, seam, pixels.nrows - 1)
                  = Least({MinVerticalTo(pixels, border, pixels.nrows - 1, j) :
                             j \in 0 .. border - 1})
        ELSE /\ \A k \in DOMAIN seam : seam[k] < border
             /\ HorizontalSum(pixels, seam, pixels.ncols - 1)
                  = Least({MinHorizontalTo(pixels, border, pixels.ncols - 1, j) :
                             j \in 0 .. border - 1})

\* the energy matrix seam_carve's call computes for a grid and a buffer
SeamCarveEnergyOf(pix, buf) ==
    IF vertical
    THEN calculate_vertical_energy_matrix(pix, buf, width, overflow_checks)
    ELSE calculate_horizontal_energy_matrix(pix, buf, width, overflow_checks)

\* C4 as stated: the energies in [0, border) computed in an iteration are the
\* same whatever a pixel beyond border holds and whatever the buffer held
C4_EnergyFromScratch ==
    pc = "min" =>
        \A q \in DOMAIN pixels.data \ LiveCells(pixels, vertical, border) :
          \A v \in Palette :
            LET alt == [pixels EXCEPT !.data[q] = v]
                r == SeamCarveEnergyOf(alt, from_element(pixels.nrows, pixels.ncols, 0))
            IN  /\ r.status = "ok"
                /\ \A p \in LiveCells(pixels, vertical, border) :
                      r.energy.data[p] = energy_matrix.data[p]

\* C5 as stated: asked for at least as many seams as the grid has columns
\* (rows), seam_carve runs no step of the loop, changes no pixel and ends with
\* the error InsufficientDimension
C5_InsufficientDimension ==
    iterations >= Dimension(pixels, vertical) =>
        /\ pc \notin {"min", "path", "carve"}
        /\ pixels = pixels0
        /\ pc \in {"done", "panic"} => status = "InsufficientDimension"

-----------------------------------------------------------------------------
(* Claims about the energy functions, checked under SpecEnergy *)

\* C6 as stated: after calculate_vertical_energy_matrix with 1 <= border <=
\* ncols, every cell in a column below border holds the least local-energy
\* sum of a connected path from row 0 to it inside [0, border)
C6_CumulativeIsMinimum ==
    (pc = "energy_done" /\ status = "ok" /\ vertical
        /\ border >= 1 /\ border <= pixels.ncols) =>
        \A p \in LiveCells(pixels, TRUE, border) :
            energy_matrix.data[p] = MinVerticalTo(pixels, border, p[1], p[2])

\* the energy function of the call's orientation
EnergyCall(pix, buf, b) ==
    IF vertical THEN calculate_vertical_energy_matrix(pix, buf, b, overflow_checks)
    ELSE calculate_horizontal_energy_matrix(pix, buf, b, overflow_checks)

\* whether cell q lies outside the causal window of cell p: below row p[1] or
\* at a column >= border (vertical); right of column p[2] or at a row >=
\* border (horizontal)
OutsideWindow(q, p) ==
    IF vertical THEN q[1] > p[1] \/ q[2] >= border
    ELSE q[2] > p[2] \/ q[1] >= border

\* C9: the energy a call leaves at a cell inside the bound does not change
\* when one pixel outside the cell's causal window (rows <= i and columns <
\* border for the vertical computation, transposed for the horizontal one)
\* is given any other value and the call is run on the same buffer; grids
\* that agree on the window differ by a chain of such changes.
C9_CausalWindow ==
    (pc = "energy_done" /\ status = "ok") =>
        \A q \in DOMAIN pixels.data : \A v \in Palette :
            LET r == EnergyCall([pixels EXCEPT !.data[q] = v], energy_in, border)
            IN  /\ r.status = "ok"
                /\ \A p \in LiveCells(pixels, vertical, border) :
                      OutsideWindow(q, p) => r.energy.data[p] = energy_matrix.data[p]

\* C9 witness: a vertical call with a bound inside the grid has returned a
\* positive energy at the last live column of the last row, next to a column
\* outside the bound that holds a different pixel
C9_Witness ==
    /\ pc = "energy_done" /\ status = "ok" /\ vertical
    /\ pixels.nrows >= 2 /\ border >= 2 /\ border < pixels.ncols
    /\ energy_matrix.data[<<pixels.nrows - 1, border - 1>>] > 0
    /\ pixels.data[<<0, border>>] # pixels.data[<<0, border - 1>>]

-----------------------------------------------------------------------------
(* Claims about the seam finder, checked under SpecFinder *)

\* C2 as stated: for a bound in [1, dimension] and a start in [0, border) the
\* returned seam has one entry per row (column), every entry in [0, border),
\* and adjacent entries differ by at most 1
C2_SeamInsideBound ==
    (pc = "path_done" /\ status = "ok") =>
        /\ DOMAIN seam = 0 .. SeamLength(energy_matrix, vertical) - 1
        /\ \A k \in DOMAIN seam : seam[k] >= 0 /\ seam[k] < border
        /\ \A k \in DOMAIN seam : k >= 1 => Abs(seam[k] - seam[k - 1]) <= 1

\* the energy the trace reads for candidate k when it steps back from index j
Candidate(j, k) ==
    IF vertical THEN energy_matrix.data[<<j - 1, k>>] ELSE energy_matrix.data[<<k, j - 1>>]

\* the candidate with the least energy among c, c - 1, c + 1 within
\* [0, border), the first in that order among equals
ArgminByPrecedence(j, c) ==
    LET within == {k \in {c - 1, c, c + 1} : k >= 0 /\ k < border}
        least == Least({Candidate(j, k) : k \in within})
    IN  IF Candidate(j, c) = least THEN c
        ELSE IF c - 1 \in within /\ Candidate(j, c - 1) = least THEN c - 1
        ELSE c + 1

\* C7 as stated: every backward step of the trace from a position c within
\* the bound chooses the candidate of least energy among c - 1, c, c + 1
\* within [0, border), with precedence center, left, right
C7_StepIsArgmin ==
    (pc = "path_done" /\ status = "ok") =>
        \A j \in DOMAIN seam :
            (j >= 1 /\ seam[j] < border) => seam[j - 1] = ArgminByPrecedence(j, seam[j])

\* the energy at index k of the line the endpoint search scans
LastLine(k) ==
    IF vertical THEN energy_matrix.data[<<energy_matrix.nrows - 1, k>>]
    ELSE energy_matrix.data[<<k, energy_matrix.ncols - 1>>]

\* C8: calculate_min_energy_column / calculate_min_energy_row return the
\* smallest index in [0, border) at which the last row / last column attains
\* its minimum over [0, border), and leave the grid as it was (so running
\* them again on it returns the same index).
C8_LeftmostMinimum ==
    pc = "min_done" =>
        /\ x >= 0 /\ x < border
        /\ \A k \in 0 .. border - 1 : LastLine(x) <= LastLine(k)
        /\ \A k \in 0 .. x - 1 : LastLine(k) > LastLine(x)
        /\ energy_matrix = energy_in

\* C8 witness: the column search has returned index 1 of a last row whose
\* minimum is attained again to the right of it
C8_Witness ==
    /\ pc = "min_done" /\ vertical /\ border >= 3 /\ x = 1
    /\ LastLine(0) > LastLine(1) /\ LastLine(2) = LastLine(1)

-----------------------------------------------------------------------------
(* Claims about the pixel distance, checked under SpecPixel *)

\* C10: color_diff equals the sum of the squared channel differences; each
\* channel difference it forms is the true difference, in -255 .. 255; no
\* intermediate value leaves the i32 range; the result lies in [0, 195075],
\* is the same with the arguments exchanged, and is 0 exactly for equal pixels.
C10_ColorDiff ==
    pc = "diff_done" =>
        LET dr == pixel1.red - pixel2.red
            dg == pixel1.green - pixel2.green
            db == pixel1.blue - pixel2.blue
        IN  /\ red_diff(pixel1, pixel2) = dr /\ dr \in -255 .. 255
            /\ green_diff(pixel1, pixel2) = dg /\ dg \in -255 .. 255
            /\ blue_diff(pixel1, pixel2) = db /\ db \in -255 .. 255
            /\ diff = dr * dr + dg * dg + db * db
            /\ dr * dr + dg * dg + db * db <= I32_MAX
            /\ diff >= 0 /\ diff <= 195075
            /\ diff = color_diff(pixel2, pixel1)
            /\ (diff = 0) <=> (pixel1 = pixel2)

\* C10 witness: the distance of black and white, the largest there is
C10_Witness ==
    /\ pc = "diff_done"
    /\ pixel1 = Pixel(0, 0, 0) /\ pixel2 = Pixel(255, 255, 255)
    /\ diff = 195075

-----------------------------------------------------------------------------
(* Claims about the width of the energy cells, checked under SpecTall *)

\* C11 as stated: no addition of the energy computation exceeds the range of
\* the u32 energy cell, whatever the size of the grid: no energy value wraps
\* around and none aborts the computation
C11_NoEnergyOverflow ==
    status \notin {"wrapped", "energy_overflow"}

-----------------------------------------------------------------------------
(* Claims about seam_carve on particular grids, checked under SpecCarve *)

\* every pixel of the grid is the same
Uniform(pix) == \A p, q \in DOMAIN pix.data : pix.data[p] = pix.data[q]

\* the first iteration of seam_carve is at, or has failed at, one of its steps
FirstIteration == done_iters = 0 /\ pc \in {"min", "path", "carve", "panic"}

\* the seam that is 0 at every index of a grid's seams
ZeroSeam(pix, vert) == [k \in 0 .. SeamLength(pix, vert) - 1 |-> 0]

\* C12 as stated: on a uniform grid of any size, in both orientations, the
\* energy computation leaves 0 in every cell, the endpoint search returns 0
\* and the traced seam is 0 at every index
C12_UniformGrid ==
    (Uniform(pixels0) /\ FirstIteration) =>
        /\ pc # "panic"
        /\ \A p \in DOMAIN energy_matrix.data : energy_matrix.data[p] = 0
        /\ pc \in {"path", "carve"} => x = 0
        /\ pc = "carve" => seam = ZeroSeam(pixels0, vertical)

\* every row of the grid is of one colour, and adjacent rows differ in colour
HorizontalBands(pix) ==
    /\ \A p \in DOMAIN pix.data : pix.data[p] = pix.data[<<p[1], 0>>]
    /\ \A i \in 1 .. pix.nrows - 1 : pix.data[<<i, 0>>] # pix.data[<<i - 1, 0>>]

\* C13 as stated: on a grid of horizontal bands the vertical energy
\* computation leaves 0 in row 0 and, in every later row, one positive value
\* in all columns, and the traced vertical seam is column 0 in every row
C13_HorizontalBands ==
    (HorizontalBands(pixels0) /\ vertical /\ FirstIteration) =>
        /\ pc # "panic"
        /\ \A p \in DOMAIN energy_matrix.data :
              IF p[1] = 0 THEN energy_matrix.data[p] = 0
              ELSE /\ energy_matrix.data[p] > 0
                   /\ energy_matrix.data[p] = energy_matrix.data[<<p[1], 0>>]
        /\ pc = "carve" => seam = ZeroSeam(pixels0, TRUE)

\* C14 as stated: when an iteration of seam_carve fails, the grid is as it
\* was at the start of that iteration
C14_FailedIterationLeavesGrid ==
    (pc = "panic" /\ done_iters < iterations) => pixels = iter_pixels

\* C15 as stated: while 1 <= border <= the grid's dimension along the carved
\* axis (the endpoint search then returns a start below border), no step of
\* seam_carve and no direct removal indexes a matrix outside its bounds
C15_NoIndexOutOfBounds ==
    (border >= 1 /\ border <= Dimension(pixels, vertical)) => status # "index"

-----------------------------------------------------------------------------
(* Claims about the errors of the energy functions, checked under SpecEnergy *)

\* C16 as stated: called with border == 0 or with border above the grid's
\* dimension along the seam axis, the energy computation reports InvalidBorder
\* and writes nothing into the energy grid
C16_InvalidBorder ==
    (pc = "energy_done" /\ (border = 0 \/ border > Dimension(pixels, vertical))) =>
        /\ status = "InvalidBorder"
        /\ energy_matrix = energy_in

-----------------------------------------------------------------------------
(* Claims about the errors of the seam trace, checked under SpecFinder *)

\* C17 as stated: tracing a vertical seam on a grid of one row, or a
\* horizontal seam on a grid of one column, fails with EmptySeam and returns
\* no seam
C17_EmptySeam ==
    (pc = "path_done" /\ SeamLength(energy_matrix, vertical) = 1) =>
        /\ status = "EmptySeam"
        /\ seam = NoSeam

-----------------------------------------------------------------------------
(* Claims about both orientations, checked under SpecKernel *)

\* the transpose of a matrix
Transpose(m) ==
    [nrows |-> m.ncols, ncols |-> m.nrows,
     data |-> [p \in Cells(m.ncols, m.nrows) |-> m.data[<<p[2], p[1]>>]]]

\* C18: each horizontal function does what its vertical counterpart does on
\* the transposed input.  calculate_horizontal_energy_matrix on a grid, a
\* buffer and a bound leaves the transpose of what
\* calculate_vertical_energy_matrix leaves on the transposed grid and buffer
\* with that bound, with the same outcome; calculate_min_energy_row returns
\* what calculate_min_energy_column returns on the transposed energy grid;
\* calculate_optimal_horizontal_path returns the seam and outcome of
\* calculate_optimal_vertical_path on it; carve_horizontal_path leaves the
\* transpose of what carve_vertical_path leaves on the transposed grid.
C18_HorizontalIsTranspose ==
    ~vertical =>
        /\ pc = "energy_done" =>
              LET r == calculate_vertical_energy_matrix(Transpose(pixels),
                           Transpose(energy_in), border, overflow_checks)
              IN  status = r.status /\ energy_matrix = Transpose(r.energy)
        /\ pc = "min_done" =>
              x = calculate_min_energy_column(Transpose(energy_matrix), border)
        /\ pc = "path_done" =>
              LET r == calculate_optimal_vertical_path(Transpose(energy_matrix),
                           border, x, overflow_checks)
              IN  status = r.status /\ seam = r.seam
        /\ pc = "carved" =>
              LET r == carve_vertical_path(Transpose(pixels0), border, seam,
                                           overflow_checks)
              IN  status = r.status /\ pixels = Transpose(r.pixels)

\* C18 witness: a horizontal removal along a seam that is not a straight line
\* has moved pixels of a grid that is not square
C18_Witness ==
    /\ pc = "carved" /\ ~vertical /\ status = "ok"
    /\ pixels0.nrows = 3 /\ pixels0.ncols = 2
    /\ seam[0] # seam[1]
    /\ pixels # pixels0

\* C19 as stated: with a bound of at least 1 no index computation on unsigned
\* values goes below zero: not j - 1 in the accumulation, not seam[j] - 1 and
\* j - 1 in the trace, not border - 1 in the removal; so no call ends in an
\* arithmetic overflow
C19_NoIndexUnderflow ==
    (border >= 1 /\ pc \in {"energy_done", "path_done", "carved"}) =>
        status # "overflow"

-----------------------------------------------------------------------------
(* Claims about landfill, checked under SpecLandfillFair *)

\* the cells connected to the seed by steps to a horizontal or vertical
\* neighbour through cells of the seed's colour
RECURSIVE Connected(_, _, _)
Connected(pix, colour, found) ==
    LET more == {p \in DOMAIN pix.data :
                    /\ pix.data[p] = colour
                    /\ \E q \in found : Abs(p[1] - q[1]) + Abs(p[2] - q[2]) = 1}
    IN  IF more \subseteq found THEN found ELSE Connected(pix, colour, found \cup more)

Region(pix, seed) == Connected(pix, pix.data[seed], {seed})

SeedInside == coords \in DOMAIN pixels.data

\* the call has come to an end: the worklist ran empty, the call panicked, or
\* the worklist outgrew the part of it that is followed
LandfillEnded == pc \in {"filled", "panic", "stack_limit"}

\* C20 as stated: for every grid, every seed inside it and every fill colour,
\* the fill colour being the seed's colour included, the worklist of landfill
\* runs empty, and then exactly the cells of the seed's 4-connected region of
\* its colour hold the fill colour while every other cell is as it was
C20_LandfillTerminates ==
    /\ [](pc = "filled" =>
            pixels = [pixels0 EXCEPT !.data = [p \in DOMAIN pixels0.data |->
                         IF p \in Region(pixels0, coords) THEN rgb
                         ELSE pixels0.data[p]]])
    /\ SeedInside => <>LandfillEnded

=============================================================================
